---- MODULE Spec2Model ----
(***************************************************************************)
(* A model of the searcap capture scripts:                                 *)
(*   - capture2.js : CLI entry, runCapture, the five capture strategies    *)
(*                   and uploadImage;                                      *)
(*   - capture.js  : main / captureKeyword (first script of the file);     *)
(*   - the mobile price-compare variant of capture.js with                 *)
(*     captureMobilePricecompareStrict.                                    *)
(* Strings are sequences of one-character strings, so that split, trim,    *)
(* parseInt and slug are computed the way the scripts compute them.        *)
(* The browser, the storage bucket and the database are the environment:   *)
(* each call either returns or throws, chosen nondeterministically.        *)
(***************************************************************************)
EXTENDS Integers, Sequences, FiniteSets, TLC

\* ------------------------------------------------------------------ bounds
\* Longest KEYWORDS value enumerated by the CLI specification.
MaxKwLen == 3
\* Longest command line enumerated by the CLI specification.
MaxArgs == 4
\* Longest DEVICE_SCALE_FACTOR / SIGNED_URL_DAYS value enumerated.
MaxNumLen == 2
\* How many environment calls may throw in one run.
MaxFaults == 2

\* ------------------------------------------------------------ JS values
\* process.env.X of a variable that is not in the environment.
undefined == <<"undefined">>
\* JS numbers are <<"num", n>>; the number NaN is <<"NaN", 0>>.
Num(n) == <<"num", n>>
NaN == <<"NaN", 0>>
IsNum(x) == x[1] = "num"
Val(x) == x[2]

\* JS truthiness of a string-or-undefined value.
Truthy(s) == s # undefined /\ s # <<>>

\* a || b on string-or-undefined values.
OrElse(a, b) == IF Truthy(a) THEN a ELSE b

Digits == {"0", "1", "2", "3", "4", "5", "6", "7", "8", "9"}

DigitVal(c) ==
  CASE c = "0" -> 0 [] c = "1" -> 1 [] c = "2" -> 2 [] c = "3" -> 3
    [] c = "4" -> 4 [] c = "5" -> 5 [] c = "6" -> 6 [] c = "7" -> 7
    [] c = "8" -> 8 [] c = "9" -> 9

IsSpace(c) == c = " "

RECURSIVE TrimStart(_)
TrimStart(s) ==
  IF s # <<>> /\ IsSpace(Head(s)) THEN TrimStart(Tail(s)) ELSE s

RECURSIVE TrimEnd(_)
TrimEnd(s) ==
  IF s # <<>> /\ IsSpace(s[Len(s)]) THEN TrimEnd(SubSeq(s, 1, Len(s) - 1)) ELSE s

\* String.prototype.trim
Trim(s) == TrimEnd(TrimStart(s))

\* The value of the longest decimal-digit prefix of s, continuing from acc;
\* <<value, number of digits read>>.
RECURSIVE DigitPrefix(_, _, _)
DigitPrefix(s, acc, n) ==
  IF s # <<>> /\ Head(s) \in Digits
    THEN DigitPrefix(Tail(s), acc * 10 + DigitVal(Head(s)), n + 1)
    ELSE <<acc, n>>

\* parseInt(s, 10): leading white space is skipped, then an optional sign,
\* then the longest run of digits; NaN when there is no digit.
ParseInt(s) ==
  LET t == TrimStart(s)
      neg == t # <<>> /\ Head(t) = "-"
      signed == t # <<>> /\ Head(t) \in {"-", "+"}
      body == IF signed THEN Tail(t) ELSE t
      dp == DigitPrefix(body, 0, 0)
  IN IF dp[2] = 0 THEN NaN ELSE IF neg THEN Num(0 - dp[1]) ELSE Num(dp[1])

\* Math.min / Math.max: NaN if either argument is NaN.
MathMin(a, b) ==
  IF ~IsNum(a) \/ ~IsNum(b) THEN NaN ELSE IF Val(a) < Val(b) THEN a ELSE b
MathMax(a, b) ==
  IF ~IsNum(a) \/ ~IsNum(b) THEN NaN ELSE IF Val(a) > Val(b) THEN a ELSE b

\* a * b and a + b on numbers, NaN-propagating.
Times(a, b) == IF ~IsNum(a) \/ ~IsNum(b) THEN NaN ELSE Num(Val(a) * Val(b))
Plus(a, b) == IF ~IsNum(a) \/ ~IsNum(b) THEN NaN ELSE Num(Val(a) + Val(b))

\* const dsf = Math.max(1, Math.min(6, parseInt(DEVICE_SCALE_FACTOR || '3', 10)))
DefaultDsfText == <<"3">>
dsfOf(v) == MathMax(Num(1), MathMin(Num(6), ParseInt(OrElse(v, DefaultDsfText))))

\* const days = Math.max(1, parseInt(SIGNED_URL_DAYS || '7', 10))
DefaultDaysText == <<"7">>
daysOf(v) == MathMax(Num(1), ParseInt(OrElse(v, DefaultDaysText)))

\* 24 * 60 * 60 * 1000
DayMs == 86400000
\* the literal 7 of the makePublic fallback
FallbackDays == 7

\* s.split(','): the pieces between commas, empty pieces included.
RECURSIVE SplitComma(_, _)
SplitComma(s, cur) ==
  IF s = <<>> THEN <<cur>>
  ELSE IF Head(s) = "," THEN <<cur>> \o SplitComma(Tail(s), <<>>)
  ELSE SplitComma(Tail(s), Append(cur, Head(s)))

RECURSIVE MapTrim(_)
MapTrim(ss) == IF ss = <<>> THEN <<>> ELSE <<Trim(Head(ss))>> \o MapTrim(Tail(ss))

RECURSIVE FilterBoolean(_)
FilterBoolean(ss) ==
  IF ss = <<>> THEN <<>>
  ELSE IF Truthy(Head(ss)) THEN <<Head(ss)>> \o FilterBoolean(Tail(ss))
  ELSE FilterBoolean(Tail(ss))

\* the keyword list without .filter(Boolean)
envKeywordsUnfiltered(v) == MapTrim(SplitComma(OrElse(v, <<>>), <<>>))

\* (process.env.KEYWORDS || '').split(',').map(s => s.trim()).filter(Boolean)
envKeywordsOf(v) == FilterBoolean(MapTrim(SplitComma(OrElse(v, <<>>), <<>>)))

\* args.indexOf(x), 1-based; 0 when absent.
RECURSIVE IndexOfFrom(_, _, _)
IndexOfFrom(a, x, i) ==
  IF i > Len(a) THEN 0 ELSE IF a[i] = x THEN i ELSE IndexOfFrom(a, x, i + 1)

IndexOf(a, x) == IndexOfFrom(a, x, 1)

\* getArg(name): the token after the first occurrence of the flag.
getArg(a, flag) ==
  LET idx == IndexOf(a, flag)
  IN IF idx = 0 THEN undefined
     ELSE IF idx + 1 > Len(a) THEN undefined ELSE a[idx + 1]

FlagUrl == <<"-", "-", "u", "r", "l">>
FlagKeyword == <<"-", "-", "k", "e", "y", "w", "o", "r", "d">>

\* the target list with --keyword taking precedence over --url
targetsKeywordFirst(a, kw) ==
  LET urlArg == getArg(a, FlagUrl)
      keywordArg == getArg(a, FlagKeyword)
      envKeywords == envKeywordsOf(kw)
  IN IF Truthy(keywordArg) THEN <<keywordArg>>
     ELSE IF Truthy(urlArg) THEN <<urlArg>>
     ELSE IF Len(envKeywords) > 0 THEN envKeywords
     ELSE <<>>

\* The target list of the CLI entry; <<>> stands for the usage branch.
targetsOf(a, kw) ==
  LET urlArg == getArg(a, FlagUrl)
      keywordArg == getArg(a, FlagKeyword)
      envKeywords == envKeywordsOf(kw)
  IN IF Truthy(urlArg) THEN <<urlArg>>
     ELSE IF Truthy(keywordArg) THEN <<keywordArg>>
     ELSE IF Len(envKeywords) > 0 THEN envKeywords
     ELSE <<>>

Lower(c) ==
  CASE c = "H" -> "h" [] c = "T" -> "t" [] c = "P" -> "p" [] c = "S" -> "s"
    [] OTHER -> c

RECURSIVE LowerAll(_)
LowerAll(s) == IF s = <<>> THEN <<>> ELSE <<Lower(Head(s))>> \o LowerAll(Tail(s))

StartsWith(s, p) == Len(s) >= Len(p) /\ SubSeq(s, 1, Len(p)) = p

\* /^https?:\/\//i.test(target)
isUrl(t) ==
  \/ StartsWith(LowerAll(t), <<"h", "t", "t", "p", ":", "/", "/">>)
  \/ StartsWith(LowerAll(t), <<"h", "t", "t", "p", "s", ":", "/", "/">>)

ViaUrl == <<"(", "v", "i", "a", "U", "R", "L", ")">>

\* const keyword = isUrl ? '(viaURL)' : target
keywordOf(t) == IF isUrl(t) THEN ViaUrl ELSE t

\* .replace(/[\s]+/g, '_'): every run of white space becomes one underscore.
RECURSIVE SpacesToUnderscore(_, _)
SpacesToUnderscore(s, inRun) ==
  IF s = <<>> THEN <<>>
  ELSE IF IsSpace(Head(s))
    THEN (IF inRun THEN <<>> ELSE <<"_">>) \o SpacesToUnderscore(Tail(s), TRUE)
    ELSE <<Head(s)>> \o SpacesToUnderscore(Tail(s), FALSE)

SlugForbidden == {"\\", "/", "?", "<", ">", ":", "*", "|", "\""}

RECURSIVE DropForbidden(_)
DropForbidden(s) ==
  IF s = <<>> THEN <<>>
  ELSE IF Head(s) \in SlugForbidden THEN DropForbidden(Tail(s))
  ELSE <<Head(s)>> \o DropForbidden(Tail(s))

SlugMax == 80

\* slug(str)
slug(s) ==
  LET t == DropForbidden(SpacesToUnderscore(s, FALSE))
  IN SubSeq(t, 1, IF Len(t) < SlugMax THEN Len(t) ELSE SlugMax)

\* ------------------------------------------------------------- the state
VARIABLES
  env,        \* process.env: DRY_RUN, USE_SIGNED_URL, SIGNED_URL_DAYS,
              \*              DEVICE_SCALE_FACTOR, KEYWORDS
  argv,       \* process.argv.slice(2)
  pc,         \* position of the running script
  dsf,        \* the module constant dsf of capture2.js
  firebase,   \* bucket and db are initialised
  targets,    \* the target list (capture2.js) or keyword list (capture.js)
  ti,         \* index of the current target
  vi,         \* index of the current viewport (capture.js)
  si,         \* index of the current strategy or section
  keyword,    \* runCapture's keyword
  ts,         \* runCapture's time stamp
  stabilised, \* the selector was resolved and stabilizeSection returned
  results,    \* runCapture's results array
  summaries,  \* the summaries printed by the runCapture calls that returned
  calls,      \* the arguments runCapture / captureKeyword were invoked with
  browsers,   \* the browser instances that are open
  launched,   \* how many browsers were launched so far
  clock,      \* Date.now()
  localFiles, \* files written under ./captures
  saved,      \* objects saved to the bucket
  madePublic, \* objects makePublic was called on
  signedReqs, \* getSignedUrl requests: path, time of the call, expires
  docs,       \* documents added to the 'screenshots' collection
  errors,     \* what console.error / console.warn reported
  exitCode,   \* status passed to process.exit, 0 while it was not called
  faultsLeft  \* how many more environment calls may throw

vars == <<env, argv, pc, dsf, firebase, targets, ti, vi, si, keyword, ts,
          stabilised, results, summaries, calls, browsers, launched, clock,
          localFiles, saved, madePublic, signedReqs, docs, errors, exitCode,
          faultsLeft>>

cloud == <<localFiles, saved, madePublic, signedReqs, docs>>

\* url: null
NullUrl == [kind |-> "null", path |-> <<>>, expires |-> NaN]

\* `https://storage.googleapis.com/${bucket.name}/${gcsPath}`
PublicUrl(path) == [kind |-> "public", path |-> path, expires |-> NaN]

\* what getSignedUrl({ action: 'read', expires }) resolves to
SignedUrl(path, expires) == [kind |-> "signed", path |-> path, expires |-> expires]

\* ------------------------------------------------- capture2.js: uploadImage
\* DRY_RUN honoured only when it is exactly '1'
DryRunOnlyOne == env.DRY_RUN = <<"1">>

\* if (process.env.DRY_RUN)
DryRun == Truthy(env.DRY_RUN)

\* USE_SIGNED_URL compared with the number 1, which no string equals
UseSignedUrlNever == FALSE

\* if (process.env.USE_SIGNED_URL === '1')
UseSignedUrl == env.USE_SIGNED_URL = <<"1">>

\* const fileName = `price-search-${slug(keyword)}-${ts}-${variant}.png`
fileNameOf(kw, t, variant) == [kw |-> slug(kw), ts |-> t, variant |-> variant]

\* const gcsPath = CAP_PREFIX ? `${CAP_PREFIX}/${fileName}` : fileName
\* (CAP_PREFIX is not in the modelled environment)
gcsPathOf(fileName) == fileName

\* const expires = Date.now() + days * 24 * 60 * 60 * 1000
configuredExpiry(now) ==
  Plus(Num(now), Times(daysOf(env.SIGNED_URL_DAYS), Num(DayMs)))

\* expires: Date.now() + 7 * 24 * 60 * 60 * 1000
fallbackExpiry(now) == Plus(Num(now), Num(FallbackDays * DayMs))

\* the document with the public url recorded whatever url was obtained
metaDocPublicUrl(kw, variant, path, url) ==
  [keyword |-> kw, viewport |-> "mobile", section |-> "price-search",
   variant |-> variant, filePath |-> path,
   url |-> [kind |-> "public", path |-> path, expires |-> NaN]]

\* the document uploadImage adds to 'screenshots'
metaDoc(kw, variant, path, url) ==
  [keyword |-> kw, viewport |-> "mobile", section |-> "price-search",
   variant |-> variant, filePath |-> path, url |-> url]

\* What the environment answers to one strategy: does the capture produce a
\* buffer, and does each storage / database call return (TRUE) or throw.
Outcomes == [cap : BOOLEAN, save : BOOLEAN, pub : BOOLEAN,
             sign : BOOLEAN, add : BOOLEAN]

\* The calls uploadImage reaches under outcome o.
ReachesSave(o) == o.cap /\ ~DryRun
ReachesPublic(o) == ReachesSave(o) /\ o.save /\ ~UseSignedUrl
ReachesSign(o) == ReachesSave(o) /\ o.save /\ (UseSignedUrl \/ ~o.pub)
HasUrl(o) == ReachesSave(o) /\ o.save /\ (IF ReachesSign(o) THEN o.sign ELSE o.pub)
ReachesAdd(o) == HasUrl(o) /\ firebase

\* An outcome names an answer only for the calls that are made.
Canonical(o) ==
  /\ (~ReachesSave(o) => o.save)
  /\ (~ReachesPublic(o) => o.pub)
  /\ (~ReachesSign(o) => o.sign)
  /\ (~ReachesAdd(o) => o.add)

Bit(b) == IF b THEN 0 ELSE 1
Faults(o) == Bit(o.cap) + Bit(o.save) + Bit(o.pub) + Bit(o.sign) + Bit(o.add)

\* uploadImage returns normally (the Firestore error is caught inside).
UploadReturns(o) == o.cap /\ (DryRun \/ HasUrl(o))

\* the url uploadImage returns
UploadUrl(o, path, now) ==
  IF DryRun THEN NullUrl
  ELSE IF UseSignedUrl THEN SignedUrl(path, configuredExpiry(now))
  ELSE IF o.pub THEN PublicUrl(path)
  ELSE SignedUrl(path, fallbackExpiry(now))

\* uploadImage(buffer, { keyword, variant, ts }) under outcome o, called
\* when the clock shows now.
uploadImage(o, kw, variant, t, now) ==
  LET fileName == fileNameOf(kw, t, variant)
      path == gcsPathOf(fileName)
      url == UploadUrl(o, path, now)
  IN /\ localFiles' = localFiles \cup {fileName}
     /\ saved' = IF ReachesSave(o) /\ o.save THEN saved \cup {path} ELSE saved
     /\ madePublic' = IF ReachesPublic(o) THEN madePublic \cup {path}
                      ELSE madePublic
     /\ signedReqs' =
          IF ReachesSign(o)
            THEN signedReqs \cup
                   {[path |-> path, now |-> now,
                     expires |-> IF UseSignedUrl THEN configuredExpiry(now)
                                 ELSE fallbackExpiry(now)]}
            ELSE signedReqs
     /\ docs' = IF ReachesAdd(o) /\ o.add
                  THEN docs \cup {metaDoc(kw, variant, path, url)}
                  ELSE docs
     /\ errors' = IF ReachesAdd(o) /\ ~o.add
                    THEN errors \cup {<<"Firestore error", path>>}
                    ELSE errors

\* ------------------------------------------------- capture2.js: the script
\* the strategies with the rect clips tried before the element screenshot
strategiesRectFirst ==
  <<"captureRectClip", "captureRectClipPad", "captureRectClipHiDpi",
    "captureElement", "captureIsolatedDom">>

\* const strategies = [captureElement, captureRectClip, captureRectClipPad,
\*                     captureRectClipHiDpi, captureIsolatedDom]
strategies ==
  <<"captureElement", "captureRectClip", "captureRectClipPad",
    "captureRectClipHiDpi", "captureIsolatedDom">>

\* the variant each strategy uploads under and returns
variantOf(fn) ==
  CASE fn = "captureElement" -> "element"
    [] fn = "captureRectClip" -> "rect_clip"
    [] fn = "captureRectClipPad" -> "rect_clip_pad"
    [] fn = "captureRectClipHiDpi" -> "rect_clip_hidpi"
    [] fn = "captureIsolatedDom" -> "isolated_dom"

\* strategy.name.replace(/^capture/, '').toLowerCase()
failNameOf(fn) ==
  CASE fn = "captureElement" -> "element"
    [] fn = "captureRectClip" -> "rectclip"
    [] fn = "captureRectClipPad" -> "rectclippad"
    [] fn = "captureRectClipHiDpi" -> "rectcliphidpi"
    [] fn = "captureIsolatedDom" -> "isolateddom"

\* the loop handing the first target to every iteration
firstTarget == targets[1]

\* `for (const t of targets)`: the target of the current iteration
currentTarget == targets[ti]

\* Module level of capture2.js: the constants computed when it is loaded.
LoadModule ==
  /\ pc = "load"
  /\ dsf' = dsfOf(env.DEVICE_SCALE_FACTOR)
  /\ pc' = "cli"
  /\ UNCHANGED <<env, argv, firebase, targets, ti, vi, si, keyword, ts,
                 stabilised, results, summaries, calls, browsers, launched,
                 clock, cloud, errors, exitCode, faultsLeft>>

\* CLI entry up to the loop: the target list, or usage and process.exit(1).
CliEntry ==
  /\ pc = "cli"
  /\ LET tl == targetsOf(argv, env.KEYWORDS)
     IN IF tl = <<>>
          THEN /\ errors' = errors \cup {<<"Usage">>}
               /\ exitCode' = 1
               /\ pc' = "exited"
               /\ UNCHANGED <<targets, ti>>
          ELSE /\ targets' = tl
               /\ ti' = 1
               /\ pc' = "run"
               /\ UNCHANGED <<errors, exitCode>>
  /\ UNCHANGED <<env, argv, dsf, firebase, vi, si, keyword, ts, stabilised,
                 results, summaries, calls, browsers, launched, clock, cloud,
                 faultsLeft>>

\* runCapture(target) up to the try block: initFirebase, launchMobile, stamp.
\* begin is "ok", or names the call that throws: "init" (initFirebase),
\* "launch" (puppeteer.launch), "page" (browser.newPage / setUserAgent, after
\* the browser was launched).
RunCaptureBegin ==
  /\ pc = "run"
  /\ \E begin \in {"ok", "init", "launch", "page"} :
       /\ begin # "ok" => faultsLeft > 0
       /\ begin = "init" => ~DryRun
       /\ faultsLeft' = IF begin = "ok" THEN faultsLeft ELSE faultsLeft - 1
       /\ calls' = Append(calls, currentTarget)
       /\ firebase' = IF DryRun \/ begin = "init" THEN firebase ELSE TRUE
       /\ IF begin \in {"ok", "page"}
            THEN /\ browsers' = browsers \cup {launched + 1}
                 /\ launched' = launched + 1
            ELSE UNCHANGED <<browsers, launched>>
       /\ IF begin = "ok"
            THEN /\ ts' = clock
                 /\ keyword' = keywordOf(currentTarget)
                 /\ results' = <<>>
                 /\ stabilised' = FALSE
                 /\ pc' = "open"
            ELSE /\ pc' = "rejected"
                 /\ UNCHANGED <<ts, keyword, results, stabilised>>
  /\ clock' = clock + 1
  /\ UNCHANGED <<env, argv, dsf, targets, ti, vi, si, summaries, cloud,
                 errors, exitCode>>

\* The try block of runCapture up to the strategies: openSearch, the three
\* attempts to resolve the selector, waitForSelector and stabilizeSection.
\* Any throw (also "Unable to detect price search section") goes to the
\* catch clause, which logs and falls through to finally.
OpenAndResolve ==
  /\ pc = "open"
  /\ \E ok \in BOOLEAN :
       /\ ~ok => faultsLeft > 0
       /\ faultsLeft' = IF ok THEN faultsLeft ELSE faultsLeft - 1
       /\ stabilised' = ok
       /\ IF ok
            THEN /\ pc' = "try"
                 /\ si' = 1
                 /\ UNCHANGED errors
            ELSE /\ pc' = "finally"
                 /\ errors' = errors \cup {<<"Capture failed", currentTarget>>}
                 /\ UNCHANGED si
  /\ clock' = clock + 1
  /\ UNCHANGED <<env, argv, dsf, firebase, targets, ti, vi, keyword, ts,
                 results, summaries, calls, browsers, launched, cloud,
                 exitCode>>

\* One iteration of `for (const strategy of strategies)`: the strategy takes
\* its screenshot and calls uploadImage; the result or the error is pushed.
TryStrategy ==
  /\ pc = "try"
  /\ \E o \in Outcomes :
       /\ Canonical(o)
       /\ Faults(o) <= faultsLeft
       /\ faultsLeft' = faultsLeft - Faults(o)
       /\ LET fn == strategies[si]
              path == gcsPathOf(fileNameOf(keyword, ts, variantOf(fn)))
          IN /\ IF o.cap
                  THEN uploadImage(o, keyword, variantOf(fn), ts, clock)
                  ELSE UNCHANGED <<cloud, errors>>
             /\ results' =
                  Append(results,
                         IF UploadReturns(o)
                           THEN [variant |-> variantOf(fn), ok |-> TRUE,
                                 url |-> UploadUrl(o, path, clock)]
                           ELSE [variant |-> failNameOf(fn), ok |-> FALSE,
                                 url |-> NullUrl])
  /\ IF si < Len(strategies)
       THEN /\ si' = si + 1
            /\ pc' = "try"
       ELSE /\ si' = si
            /\ pc' = "finally"
  /\ clock' = clock + 1
  /\ UNCHANGED <<env, argv, dsf, firebase, targets, ti, vi, keyword, ts,
                 stabilised, summaries, calls, browsers, launched, exitCode>>

\* finally { await browser.close() }, the summary, and the step of the CLI
\* loop to the next target.  When browser.close throws, runCapture rejects
\* and the browser may or may not have gone.
FinallyClose ==
  /\ pc = "finally"
  /\ \E ok \in BOOLEAN, gone \in BOOLEAN :
       /\ ~ok => faultsLeft > 0
       /\ ok => gone
       /\ faultsLeft' = IF ok THEN faultsLeft ELSE faultsLeft - 1
       /\ browsers' = IF gone THEN browsers \ {launched} ELSE browsers
       /\ IF ok
            THEN /\ summaries' = Append(summaries, results)
                 /\ IF ti < Len(targets)
                      THEN /\ ti' = ti + 1
                           /\ pc' = "run"
                      ELSE /\ ti' = ti
                           /\ pc' = "done"
            ELSE /\ pc' = "rejected"
                 /\ UNCHANGED <<summaries, ti>>
  /\ clock' = clock + 1
  /\ UNCHANGED <<env, argv, dsf, firebase, targets, vi, si, keyword, ts,
                 stabilised, results, calls, launched, cloud, errors,
                 exitCode>>

Next2 ==
  \/ LoadModule
  \/ CliEntry
  \/ RunCaptureBegin
  \/ OpenAndResolve
  \/ TryStrategy
  \/ FinallyClose

\* ------------------------------------------------------ initial states
Idle ==
  /\ dsf = NaN
  /\ firebase = FALSE
  /\ targets = <<>>
  /\ ti = 0
  /\ vi = 0
  /\ si = 0
  /\ keyword = <<>>
  /\ ts = 0
  /\ stabilised = FALSE
  /\ results = <<>>
  /\ summaries = <<>>
  /\ calls = <<>>
  /\ browsers = {}
  /\ launched = 0
  /\ clock = 0
  /\ localFiles = {}
  /\ saved = {}
  /\ madePublic = {}
  /\ signedReqs = {}
  /\ docs = {}
  /\ errors = {}
  /\ exitCode = 0

HttpU == <<"h", "t", "t", "p", ":", "/", "/", "u">>

\* A run of capture2.js over one or two targets, with every combination of
\* the upload switches and a budget of environment failures.
Init ==
  /\ Idle
  /\ pc = "load"
  /\ env \in [DRY_RUN : {undefined, <<>>, <<"1">>, <<"0">>},
              USE_SIGNED_URL : {undefined, <<"1">>},
              SIGNED_URL_DAYS : {undefined, <<"3">>},
              DEVICE_SCALE_FACTOR : {undefined},
              KEYWORDS : {<<"a", ",", "b">>}]
  /\ argv \in {<<>>, <<FlagUrl, HttpU>>}
  /\ faultsLeft = MaxFaults

Spec == Init /\ [][Next2]_vars

\* Strings of at most n characters over the alphabet A.
RECURSIVE StringsUpTo(_, _)
StringsUpTo(A, n) ==
  IF n = 0 THEN {<<>>}
  ELSE LET shorter == StringsUpTo(A, n - 1)
       IN shorter \cup {Append(x, c) : x \in shorter, c \in A}

NumAlphabet == {"0", "3", "7", "-", "x", " "}
KwAlphabet == {"a", ",", " "}
ArgTokens == {FlagUrl, FlagKeyword, HttpU, <<"k">>, <<>>}

\* capture2.js under every numeric setting, in an environment that does
\* not fail.
InitEnv ==
  /\ Idle
  /\ pc = "load"
  /\ env \in [DRY_RUN : {undefined},
              USE_SIGNED_URL : {<<"1">>},
              SIGNED_URL_DAYS : {undefined, <<"3">>},
              DEVICE_SCALE_FACTOR :
                {undefined} \cup StringsUpTo(NumAlphabet, MaxNumLen),
              KEYWORDS : {<<"a">>}]
  /\ argv = <<>>
  /\ faultsLeft = 0

SpecEnv == InitEnv /\ [][Next2]_vars

\* capture2.js under every command line and KEYWORDS value, in an
\* environment that does not fail.
InitCli ==
  /\ Idle
  /\ pc = "load"
  /\ env \in [DRY_RUN : {<<"1">>},
              USE_SIGNED_URL : {undefined},
              SIGNED_URL_DAYS : {undefined},
              DEVICE_SCALE_FACTOR : {undefined},
              KEYWORDS : {undefined} \cup StringsUpTo(KwAlphabet, MaxKwLen)]
  /\ argv \in StringsUpTo(ArgTokens, MaxArgs)
  /\ faultsLeft = 0

SpecCli == InitCli /\ [][Next2]_vars

\* The scheduler runs the script as long as a step is enabled.
\* (two targets, uploads enabled or disabled, every failure within the budget)
InitFair ==
  /\ Idle
  /\ pc = "load"
  /\ env \in [DRY_RUN : {undefined, <<"1">>},
              USE_SIGNED_URL : {undefined},
              SIGNED_URL_DAYS : {undefined},
              DEVICE_SCALE_FACTOR : {undefined},
              KEYWORDS : {<<"a", ",", "b">>}]
  /\ argv = <<>>
  /\ faultsLeft = MaxFaults

FairSpec == InitFair /\ [][Next2]_vars /\ WF_vars(Next2)

\* -------------------------------------------------- capture.js (script 1)
\* the viewports with mobile listed before pc
viewportsMobileFirst == <<"mobile", "pc">>

\* const viewports = [{ label: 'pc', ... }, { label: 'mobile', ... }]
viewports == <<"pc", "mobile">>

\* const sections = [{ label: 'powerlink', ... }, { label: 'pricecompare', ... }]
sections == <<"powerlink", "pricecompare">>

\* `${section.label}_${viewport.label}_${keyword}_${timestampLabel}.png`
sectionPath(section, viewport, kw, t) ==
  [section |-> section, viewport |-> viewport, kw |-> kw, ts |-> t, tag |-> ""]

\* the document captureKeyword adds to 'screenshots'
sectionDoc(section, viewport, kw, path) ==
  [keyword |-> kw, viewport |-> viewport, section |-> section,
   variant |-> "", filePath |-> path, url |-> PublicUrl(path)]

\* The step of the two nested `for` loops of main to the next pair.
NextPair(donePc, nextPc) ==
  IF vi < Len(viewports)
    THEN /\ vi' = vi + 1
         /\ ti' = ti
         /\ pc' = nextPc
    ELSE IF ti < Len(targets)
      THEN /\ vi' = 1
           /\ ti' = ti + 1
           /\ pc' = nextPc
      ELSE /\ vi' = vi
           /\ ti' = ti
           /\ pc' = donePc

\* Module level of capture.js: admin.initializeApp, bucket, db.
LoadCapture ==
  /\ pc = "c_load"
  /\ \E ok \in BOOLEAN :
       /\ ~ok => faultsLeft > 0
       /\ faultsLeft' = IF ok THEN faultsLeft ELSE faultsLeft - 1
       /\ firebase' = ok
       /\ pc' = IF ok THEN "c_main" ELSE "rejected"
  /\ UNCHANGED <<env, argv, dsf, targets, ti, vi, si, keyword, ts, stabilised,
                 results, summaries, calls, browsers, launched, clock, cloud,
                 errors, exitCode>>

\* main() up to the loops: the keyword list, or the error message and return.
Main ==
  /\ pc = "c_main"
  /\ LET keywords == envKeywordsOf(env.KEYWORDS)
     IN IF Len(keywords) = 0
          THEN /\ errors' = errors \cup {<<"KEYWORDS empty">>}
               /\ pc' = "done"
               /\ UNCHANGED <<targets, ti, vi>>
          ELSE /\ targets' = keywords
               /\ ti' = 1
               /\ vi' = 1
               /\ pc' = "c_keyword"
               /\ UNCHANGED errors
  /\ UNCHANGED <<env, argv, dsf, firebase, si, keyword, ts, stabilised,
                 results, summaries, calls, browsers, launched, clock, cloud,
                 exitCode, faultsLeft>>

\* captureKeyword(keyword, viewport) up to the section loop: launch, newPage,
\* setViewport, goto.  begin is "ok" or names what throws: "launch"
\* (puppeteer.launch) or "page" (newPage, setViewport or goto, after the
\* browser was launched).  A throw rejects captureKeyword; main catches it,
\* logs, and goes on with the next pair.
CaptureKeywordBegin ==
  /\ pc = "c_keyword"
  /\ \E begin \in {"ok", "launch", "page"} :
       /\ begin # "ok" => faultsLeft > 0
       /\ faultsLeft' = IF begin = "ok" THEN faultsLeft ELSE faultsLeft - 1
       /\ calls' = Append(calls, <<targets[ti], viewports[vi]>>)
       /\ IF begin \in {"ok", "page"}
            THEN /\ browsers' = browsers \cup {launched + 1}
                 /\ launched' = launched + 1
            ELSE UNCHANGED <<browsers, launched>>
       /\ IF begin = "ok"
            THEN /\ keyword' = targets[ti]
                 /\ ts' = clock
                 /\ si' = 1
                 /\ pc' = "c_section"
                 /\ UNCHANGED <<ti, vi, errors>>
            ELSE /\ errors' = errors \cup {<<"main", targets[ti], viewports[vi]>>}
                 /\ NextPair("done", "c_keyword")
                 /\ UNCHANGED <<keyword, ts, si>>
  /\ clock' = clock + 1
  /\ UNCHANGED <<env, argv, dsf, firebase, targets, stabilised, results,
                 summaries, cloud, exitCode>>

\* One iteration of `for (const section of sections)`: findSection, the
\* element screenshot, bucket.save and the Firestore add, all inside try.
\*   "ok"       the image is saved and the document added
\*   "notFound" findSection returned null: warning, continue
\*   "throw"    findSection, screenshot or save threw: logged
\*   "addThrow" the image is saved and the Firestore add threw: logged
CaptureSection ==
  /\ pc = "c_section"
  /\ \E o \in {"ok", "notFound", "throw", "addThrow"} :
       LET path == sectionPath(sections[si], viewports[vi], keyword, ts)
           fault == o \in {"throw", "addThrow"}
       IN /\ fault => faultsLeft > 0
          /\ faultsLeft' = IF fault THEN faultsLeft - 1 ELSE faultsLeft
          /\ saved' = IF o \in {"ok", "addThrow"} THEN saved \cup {path} ELSE saved
          /\ docs' = IF o = "ok"
                       THEN docs \cup {sectionDoc(sections[si], viewports[vi],
                                                  keyword, path)}
                       ELSE docs
          /\ errors' = IF o = "ok" THEN errors
                       ELSE errors \cup {<<o, keyword, viewports[vi], sections[si]>>}
  /\ IF si < Len(sections)
       THEN /\ si' = si + 1
            /\ pc' = "c_section"
       ELSE /\ si' = si
            /\ pc' = "c_close"
  /\ clock' = clock + 1
  /\ UNCHANGED <<env, argv, dsf, firebase, targets, ti, vi, keyword, ts,
                 stabilised, results, summaries, calls, browsers, launched,
                 localFiles, madePublic, signedReqs, exitCode>>

\* await browser.close() at the end of captureKeyword, and main's step to the
\* next pair; a throw is caught by main and logged.
CaptureClose ==
  /\ pc = "c_close"
  /\ \E ok \in BOOLEAN, gone \in BOOLEAN :
       /\ ~ok => faultsLeft > 0
       /\ ok => gone
       /\ faultsLeft' = IF ok THEN faultsLeft ELSE faultsLeft - 1
       /\ browsers' = IF gone THEN browsers \ {launched} ELSE browsers
       /\ errors' = IF ok THEN errors
                    ELSE errors \cup {<<"main", targets[ti], viewports[vi]>>}
  /\ NextPair("done", "c_keyword")
  /\ clock' = clock + 1
  /\ UNCHANGED <<env, argv, dsf, firebase, targets, si, keyword, ts,
                 stabilised, results, summaries, calls, launched, cloud,
                 exitCode>>

NextCapture ==
  \/ LoadCapture
  \/ Main
  \/ CaptureKeywordBegin
  \/ CaptureSection
  \/ CaptureClose

NoArgsEnv(kws) ==
  [DRY_RUN : {undefined}, USE_SIGNED_URL : {undefined},
   SIGNED_URL_DAYS : {undefined}, DEVICE_SCALE_FACTOR : {undefined},
   KEYWORDS : kws]

\* capture.js under every KEYWORDS value and a budget of failures.
InitCapture ==
  /\ Idle
  /\ pc = "c_load"
  /\ env \in NoArgsEnv({undefined} \cup StringsUpTo(KwAlphabet, MaxKwLen))
  /\ argv = <<>>
  /\ faultsLeft = MaxFaults

SpecCapture == InitCapture /\ [][NextCapture]_vars

\* ------------------------- capture.js, mobile price-compare revision
\* const envDSF = Math.max(1, parseInt(process.env.DEVICE_SCALE_FACTOR || '3', 10))
envDSFOf(v) == MathMax(Num(1), ParseInt(OrElse(v, DefaultDsfText)))

\* const sectionKeys = ['powerlink-pc', 'pricecompare-pc', 'powerlink-mobile']
sectionKeys == <<"powerlink-pc", "pricecompare-pc", "powerlink-mobile">>

\* key.includes('mobile') / key.includes('pc')
keyIncludes(key, label) ==
  IF label = "mobile" THEN key = "powerlink-mobile"
  ELSE key \in {"powerlink-pc", "pricecompare-pc"}

\* if (viewport.label === 'pc' && key.includes('mobile')) continue;
\* if (viewport.label === 'mobile' && key.includes('pc')) continue;
keySkipped(key, viewport) ==
  \/ viewport = "pc" /\ keyIncludes(key, "mobile")
  \/ viewport = "mobile" /\ keyIncludes(key, "pc")

\* `${key}_${viewportLabel}_${keyword}_${ts}${tag ? '_' + tag : ''}.png`
shotPath(key, viewport, kw, t, tag) ==
  [section |-> key, viewport |-> viewport, kw |-> kw, ts |-> t, tag |-> tag]

\* the document uploadShot adds: variant: tag || 'base'
shotDoc(key, viewport, kw, path, tag) ==
  [keyword |-> kw, viewport |-> viewport, section |-> key,
   variant |-> IF tag = "" THEN "base" ELSE tag,
   filePath |-> path, url |-> PublicUrl(path)]

\* What the storage and the database answer to one uploadShot call.
ShotOutcomes == {"ok", "saveThrow", "addThrow"}

\* uploadShot(buf, tag): the objects it saves and the documents it adds
shotSaved(u, path) == IF u \in {"ok", "addThrow"} THEN {path} ELSE {}
shotDocs(u, doc) == IF u = "ok" THEN {doc} ELSE {}

StrictKey == "pricecompare-mobile"

\* the tag uploadShot sees when it is bound as uploadShot.bind(null, undefined)
\* and called with the screenshot: the buffer itself
BufferTag == "[buffer]"

\* Module level: admin.initializeApp, bucket, db, envDSF.
P5Load ==
  /\ pc = "p_load"
  /\ \E ok \in BOOLEAN :
       /\ ~ok => faultsLeft > 0
       /\ faultsLeft' = IF ok THEN faultsLeft ELSE faultsLeft - 1
       /\ firebase' = ok
       /\ dsf' = IF ok THEN envDSFOf(env.DEVICE_SCALE_FACTOR) ELSE dsf
       /\ pc' = IF ok THEN "p_entry" ELSE "rejected"
  /\ UNCHANGED <<env, argv, targets, ti, vi, si, keyword, ts, stabilised,
                 results, summaries, calls, browsers, launched, clock, cloud,
                 errors, exitCode>>

\* Entry point up to the loops: the keyword list.
P5Entry ==
  /\ pc = "p_entry"
  /\ LET keywords == envKeywordsOf(env.KEYWORDS)
     IN IF Len(keywords) = 0
          THEN /\ pc' = "done"
               /\ UNCHANGED <<targets, ti, vi>>
          ELSE /\ targets' = keywords
               /\ ti' = 1
               /\ vi' = 1
               /\ pc' = "p_keyword"
  /\ UNCHANGED <<env, argv, dsf, firebase, si, keyword, ts, stabilised,
                 results, summaries, calls, browsers, launched, clock, cloud,
                 errors, exitCode, faultsLeft>>

\* captureKeyword up to the section loop.  begin is "ok" or names what
\* throws: "launch"; "page" (newPage / setUserAgent); "goto", which is
\* caught: the browser is closed and captureKeyword returns, unless that
\* close throws too; "prepare" (disableAnimationsAndSticky /
\* prepareMobilePage).  An uncaught throw rejects the entry point.
P5KeywordBegin ==
  /\ pc = "p_keyword"
  /\ \E begin \in {"ok", "launch", "page", "goto", "prepare"},
        closeOk \in BOOLEAN :
       LET faults == (IF begin = "ok" THEN 0 ELSE 1) + Bit(closeOk)
       IN /\ (begin # "goto" => closeOk)
          /\ faults <= faultsLeft
          /\ faultsLeft' = faultsLeft - faults
          /\ calls' = Append(calls, <<targets[ti], viewports[vi]>>)
          /\ launched' = IF begin = "launch" THEN launched ELSE launched + 1
          /\ browsers' = IF begin = "launch" \/ (begin = "goto" /\ closeOk)
                           THEN browsers
                           ELSE browsers \cup {launched + 1}
          /\ errors' = IF begin = "goto"
                         THEN errors \cup {<<"open failed", targets[ti], viewports[vi]>>}
                         ELSE errors
          /\ IF begin = "ok"
               THEN /\ keyword' = targets[ti]
                    /\ ts' = clock
                    /\ si' = 1
                    /\ pc' = "p_section"
                    /\ UNCHANGED <<ti, vi>>
               ELSE IF begin = "goto" /\ closeOk
                 THEN /\ NextPair("done", "p_keyword")
                      /\ UNCHANGED <<keyword, ts, si>>
                 ELSE /\ pc' = "rejected"
                      /\ UNCHANGED <<keyword, ts, si, ti, vi>>
  /\ clock' = clock + 1
  /\ UNCHANGED <<env, argv, dsf, firebase, targets, stabilised, results,
                 summaries, cloud, exitCode>>

\* where captureKeyword goes after the section loop
AfterSections == IF viewports[vi] = "mobile" THEN "p_strict" ELSE "p_full"

\* One iteration of `for (const key of sectionKeys)`.
\*   "skip"     the key belongs to the other viewport: continue
\*   "ok", "notFound", "throw", "addThrow" as in captureKeyword of script 1
P5Section ==
  /\ pc = "p_section"
  /\ \E o \in {"skip", "ok", "notFound", "throw", "addThrow"} :
       LET key == sectionKeys[si]
           path == shotPath(key, viewports[vi], keyword, ts, "")
           fault == o \in {"throw", "addThrow"}
       IN /\ (o = "skip") <=> keySkipped(key, viewports[vi])
          /\ fault => faultsLeft > 0
          /\ faultsLeft' = IF fault THEN faultsLeft - 1 ELSE faultsLeft
          /\ saved' = IF o \in {"ok", "addThrow"} THEN saved \cup {path} ELSE saved
          /\ docs' = IF o = "ok"
                       THEN docs \cup {sectionDoc(key, viewports[vi], keyword, path)}
                       ELSE docs
          /\ errors' = IF o \in {"ok", "skip"} THEN errors
                       ELSE errors \cup {<<o, keyword, viewports[vi], key>>}
  /\ IF si < Len(sectionKeys)
       THEN /\ si' = si + 1
            /\ pc' = "p_section"
       ELSE /\ si' = si
            /\ pc' = AfterSections
  /\ clock' = clock + 1
  /\ UNCHANGED <<env, argv, dsf, firebase, targets, ti, vi, keyword, ts,
                 stabilised, results, summaries, calls, browsers, launched,
                 localFiles, madePublic, signedReqs, exitCode>>

\* captureMobilePricecompareStrict up to the capture attempts: the selector,
\* waitForSelector, scrollIntoView, waitInnerAssets, the bounding box and
\* disableAnimationsAndSticky.
\*   "ready"      the attempts follow
\*   "noSelector" / "noBox"  warning and return
\*   "throw"      a call threw: captureKeyword catches and logs
P5StrictPrepare ==
  /\ pc = "p_strict"
  /\ \E o \in {"ready", "noSelector", "noBox", "throw"} :
       /\ o = "throw" => faultsLeft > 0
       /\ faultsLeft' = IF o = "throw" THEN faultsLeft - 1 ELSE faultsLeft
       /\ errors' = IF o = "ready" THEN errors
                    ELSE errors \cup {<<o, keyword, ts>>}
       /\ pc' = IF o = "ready" THEN "p_m41" ELSE "p_full"
  /\ clock' = clock + 1
  /\ UNCHANGED <<env, argv, dsf, firebase, targets, ti, vi, si, keyword, ts,
                 stabilised, results, summaries, calls, browsers, launched,
                 cloud, exitCode>>

\* What the environment answers to M4-1: setViewport, the first element
\* screenshot, the uploadShot call of its then-handlers, the screenshot of
\* the catch clause and its uploadShot call.
M41Outcomes == [vp : BOOLEAN, shot : BOOLEAN, up : ShotOutcomes,
                shot2 : BOOLEAN, up2 : ShotOutcomes]

\* the first attempt of M4-1 completed: no exception reached the catch clause
M41First(o) == o.vp /\ o.up = "ok"

M41Canonical(o) ==
  /\ (~o.vp => o.shot /\ o.up = "ok")
  /\ (M41First(o) => o.shot2 /\ o.up2 = "ok")
  /\ (~o.shot2 => o.up2 = "ok")

M41Faults(o) ==
  Bit(o.vp) + Bit(o.shot) + Bit(o.up = "ok") + Bit(o.shot2) + Bit(o.up2 = "ok")

\* M4-1.  The fulfilment handler is uploadShot.bind(null, undefined): it is
\* called as uploadShot(undefined, screenshot), so the screenshot arrives as
\* the tag; the rejection handler calls uploadShot(error, '04_viewport').
\* When the first attempt throws, the catch clause takes the screenshot
\* again and uploads it as '04_viewport'; when that throws too, the failure
\* of M4-1 is logged.
P5M41 ==
  /\ pc = "p_m41"
  /\ \E o \in M41Outcomes :
       LET tag1 == IF o.shot THEN BufferTag ELSE "04_viewport"
           path1 == shotPath(StrictKey, viewports[vi], keyword, ts, tag1)
           path2 == shotPath(StrictKey, viewports[vi], keyword, ts, "04_viewport")
           u1 == IF o.vp THEN o.up ELSE "saveThrow"
           u2 == IF M41First(o) \/ ~o.shot2 THEN "saveThrow" ELSE o.up2
           failed == ~M41First(o) /\ (~o.shot2 \/ o.up2 # "ok")
       IN /\ M41Canonical(o)
          /\ M41Faults(o) <= faultsLeft
          /\ faultsLeft' = faultsLeft - M41Faults(o)
          /\ saved' = saved \cup shotSaved(u1, path1) \cup shotSaved(u2, path2)
          /\ docs' = docs
               \cup shotDocs(u1, shotDoc(StrictKey, viewports[vi], keyword, path1, tag1))
               \cup shotDocs(u2, shotDoc(StrictKey, viewports[vi], keyword, path2,
                                         "04_viewport"))
          /\ errors' = IF failed THEN errors \cup {<<"M4-1", keyword, ts>>}
                       ELSE errors
  /\ pc' = "p_m42"
  /\ clock' = clock + 1
  /\ UNCHANGED <<env, argv, dsf, firebase, targets, ti, vi, si, keyword, ts,
                 stabilised, results, summaries, calls, browsers, launched,
                 localFiles, madePublic, signedReqs, exitCode>>

\* One viewport attempt that is a single try block: the capture succeeds or
\* throws, then uploadShot(buf, tag); any throw is logged under label.
StrictAttempt(label, tag, nextPc) ==
  /\ \E cap \in BOOLEAN, u \in ShotOutcomes :
       LET path == shotPath(StrictKey, viewports[vi], keyword, ts, tag)
           faults == Bit(cap) + Bit(u = "ok")
       IN /\ (~cap => u = "ok")
          /\ faults <= faultsLeft
          /\ faultsLeft' = faultsLeft - faults
          /\ saved' = IF cap THEN saved \cup shotSaved(u, path) ELSE saved
          /\ docs' = IF cap
                       THEN docs \cup shotDocs(u, shotDoc(StrictKey, viewports[vi],
                                                          keyword, path, tag))
                       ELSE docs
          /\ errors' = IF cap /\ u = "ok" THEN errors
                       ELSE errors \cup {<<label, keyword, ts>>}
  /\ pc' = nextPc
  /\ clock' = clock + 1
  /\ UNCHANGED <<env, argv, dsf, firebase, targets, ti, vi, si, keyword, ts,
                 stabilised, results, summaries, calls, browsers, launched,
                 localFiles, madePublic, signedReqs, exitCode>>

\* M4-2: padded clip, uploaded as '04_viewport_pad'.
P5M42 == pc = "p_m42" /\ StrictAttempt("M4-2", "04_viewport_pad", "p_m43")

\* M4-3: HiDPI, uploaded as '04_viewport_hidpi'.
P5M43 == pc = "p_m43" /\ StrictAttempt("M4-3", "04_viewport_hidpi", "p_iso")

\* The isolated render, uploaded as '04_isolated'.  It follows M4-3
\* unconditionally; when the host element is gone (isoHTML is null) nothing
\* is rendered.
P5Isolated ==
  /\ pc = "p_iso"
  /\ \/ StrictAttempt("fallback isolated", "04_isolated", "p_full")
     \/ /\ pc' = "p_full"
        /\ clock' = clock + 1
        /\ UNCHANGED <<env, argv, dsf, firebase, targets, ti, vi, si, keyword,
                       ts, stabilised, results, summaries, calls, browsers,
                       launched, cloud, errors, exitCode, faultsLeft>>

\* The full-page capture, inside its own try block.
P5FullPage ==
  /\ pc = "p_full"
  /\ \E o \in {"ok", "throw", "addThrow"} :
       LET path == shotPath("fullpage", viewports[vi], keyword, ts, "")
       IN /\ o # "ok" => faultsLeft > 0
          /\ faultsLeft' = IF o = "ok" THEN faultsLeft ELSE faultsLeft - 1
          /\ saved' = IF o \in {"ok", "addThrow"} THEN saved \cup {path} ELSE saved
          /\ docs' = IF o = "ok"
                       THEN docs \cup {sectionDoc("fullpage", viewports[vi],
                                                  keyword, path)}
                       ELSE docs
          /\ errors' = IF o = "ok" THEN errors
                       ELSE errors \cup {<<o, keyword, viewports[vi], "fullpage">>}
  /\ pc' = "p_close"
  /\ clock' = clock + 1
  /\ UNCHANGED <<env, argv, dsf, firebase, targets, ti, vi, si, keyword, ts,
                 stabilised, results, summaries, calls, browsers, launched,
                 localFiles, madePublic, signedReqs, exitCode>>

\* await browser.close() and the entry point's step to the next pair; a
\* throw rejects the entry point.
P5Close ==
  /\ pc = "p_close"
  /\ \E ok \in BOOLEAN, gone \in BOOLEAN :
       /\ ~ok => faultsLeft > 0
       /\ ok => gone
       /\ faultsLeft' = IF ok THEN faultsLeft ELSE faultsLeft - 1
       /\ browsers' = IF gone THEN browsers \ {launched} ELSE browsers
       /\ IF ok
            THEN NextPair("done", "p_keyword")
            ELSE /\ pc' = "rejected"
                 /\ UNCHANGED <<ti, vi>>
  /\ clock' = clock + 1
  /\ UNCHANGED <<env, argv, dsf, firebase, targets, si, keyword, ts,
                 stabilised, results, summaries, calls, launched, cloud,
                 errors, exitCode>>

NextStrict ==
  \/ P5Load
  \/ P5Entry
  \/ P5KeywordBegin
  \/ P5Section
  \/ P5StrictPrepare
  \/ P5M41
  \/ P5M42
  \/ P5M43
  \/ P5Isolated
  \/ P5FullPage
  \/ P5Close

\* The mobile price-compare revision over one keyword and a budget of
\* failures.
InitStrict ==
  /\ Idle
  /\ pc = "p_load"
  /\ env \in NoArgsEnv({undefined, <<"a">>})
  /\ argv = <<>>
  /\ faultsLeft = MaxFaults

SpecStrict == InitStrict /\ [][NextStrict]_vars

\* ============================================================ properties
\* the object path of results[i] in the current runCapture call
ResultPath(i) == gcsPathOf(fileNameOf(keyword, ts, results[i].variant))

NoCloudCall == saved = {} /\ madePublic = {} /\ signedReqs = {} /\ docs = {}

\* C1: when DRY_RUN is set (to a non-empty value), no bucket.save,
\* makePublic, getSignedUrl or Firestore add is ever made, and every strategy
\* that produced a screenshot has its image in the local captures directory
\* and got a result without a remote url.
C1_DryRunNeverUploads ==
  Truthy(env.DRY_RUN) =>
    /\ NoCloudCall
    /\ \A i \in DOMAIN results :
         results[i].ok =>
           /\ fileNameOf(keyword, ts, results[i].variant) \in localFiles
           /\ results[i].url = NullUrl

\* C1 witness: a dry run finished a target with a successful capture.
C1_Witness ==
  /\ Truthy(env.DRY_RUN)
  /\ pc = "done"
  /\ \E i \in DOMAIN results : results[i].ok
  /\ localFiles # {}

\* C2 (as stated): every capture reported ok without DRY_RUN has its image in
\* the bucket and a metadata document with the same filePath and url.
C2_Original ==
  ~Truthy(env.DRY_RUN) =>
    \A i \in DOMAIN results :
      results[i].ok =>
        /\ ResultPath(i) \in saved
        /\ \E d \in docs :
             d.filePath = ResultPath(i) /\ d.url = results[i].url

\* C2 (amended): every capture reported ok without DRY_RUN has its image in
\* the bucket, and a metadata document with the same filePath and url was
\* added unless the Firestore add threw, which was logged.
C2_SavedAndRecordedUnlessFirestoreError ==
  ~Truthy(env.DRY_RUN) =>
    \A i \in DOMAIN results :
      results[i].ok =>
        /\ ResultPath(i) \in saved
        /\ \/ \E d \in docs :
                d.filePath = ResultPath(i) /\ d.url = results[i].url
           \/ <<"Firestore error", ResultPath(i)>> \in errors

\* C2 witness: a capture was reported ok after an upload, and its document
\* is in the collection.
C2_Witness ==
  /\ ~Truthy(env.DRY_RUN)
  /\ \E i \in DOMAIN results :
       /\ results[i].ok
       /\ \E d \in docs : d.filePath = ResultPath(i) /\ d.url = results[i].url

\* C4: with USE_SIGNED_URL = '1', makePublic is never called, and the url of
\* every upload that returned, and of every recorded document, is the signed
\* url of a getSignedUrl request for that object.
C4_SignedUrlOnly ==
  env.USE_SIGNED_URL = <<"1">> =>
    /\ madePublic = {}
    /\ \A i \in DOMAIN results :
         (results[i].ok /\ ~Truthy(env.DRY_RUN)) =>
           \E r \in signedReqs :
             results[i].url = SignedUrl(r.path, r.expires) /\ r.path = ResultPath(i)
    /\ \A d \in docs :
         \E r \in signedReqs :
           d.url = SignedUrl(r.path, r.expires) /\ r.path = d.filePath

\* C4 witness: an upload with USE_SIGNED_URL = '1' returned and was recorded.
C4_Witness ==
  /\ env.USE_SIGNED_URL = <<"1">>
  /\ docs # {}
  /\ \E i \in DOMAIN results : results[i].ok /\ results[i].url.kind = "signed"

\* SIGNED_URL_DAYS as the claim reads it: its value, 7 when it is unset.
ClaimedDays ==
  IF env.SIGNED_URL_DAYS = undefined THEN Num(7) ELSE ParseInt(env.SIGNED_URL_DAYS)

\* C5 (as stated): every signed url that uploadImage requests expires
\* SIGNED_URL_DAYS days (7 when unset) after the time of the request.
C5_Original ==
  \A r \in signedReqs :
    r.expires = Plus(Num(r.now), Times(ClaimedDays, Num(DayMs)))

\* C6 (as stated): once the module is loaded, dsf is an integer between 1
\* and 6, and 3 when DEVICE_SCALE_FACTOR is unset.
C6_Original ==
  pc # "load" =>
    /\ IsNum(dsf)
    /\ Val(dsf) \in 1..6
    /\ (env.DEVICE_SCALE_FACTOR = undefined => dsf = Num(3))

\* the names results may carry for the strategies, in the claimed order:
\* element, rect clip, padded rect clip, hi-DPI rect clip, isolated DOM
ClaimedOrder ==
  <<{"element"}, {"rect_clip", "rectclip"}, {"rect_clip_pad", "rectclippad"},
    {"rect_clip_hidpi", "rectcliphidpi"}, {"isolated_dom", "isolateddom"}>>

\* C7: once the selector is resolved and stabilised, the five strategies are
\* attempted once each in the claimed order, whatever throws, and results
\* ends with five entries in that order.
C7_FiveStrategiesInOrder ==
  stabilised =>
    /\ Len(results) <= 5
    /\ \A i \in DOMAIN results : results[i].variant \in ClaimedOrder[i]
    /\ (pc = "try" => Len(results) = si - 1)
    /\ (pc # "try" => Len(results) = 5)

\* C7 witness: the loop ended after a strategy threw and later ones ran.
C7_Witness ==
  /\ stabilised
  /\ pc = "finally"
  /\ Len(results) = 5
  /\ ~results[1].ok
  /\ results[2].ok
  /\ ~results[4].ok
  /\ results[5].ok

IsPrefix(a, b) == Len(a) <= Len(b) /\ a = SubSeq(b, 1, Len(a))

Ended == pc \in {"done", "rejected", "exited"}

\* C10 (as stated): when the run has ended, runCapture was invoked exactly
\* once for every target, in list order.
C10_Original == Ended => calls = targets

\* C10 (amended): runCapture is invoked in list order, once per target, for
\* every target if no invocation rejects and otherwise up to and including
\* the first invocation that rejects; in both cases the run terminates.
C10_InOrderUntilRejection ==
  /\ [](/\ IsPrefix(calls, targets)
        /\ (pc = "done" => calls = targets)
        /\ (pc = "rejected" => Len(calls) = ti))
  /\ <>Ended

\* C10 witness: the run ended after runCapture returned for two targets.
C10_Witness == pc = "done" /\ Len(calls) = 2 /\ calls = targets

\* The value given on the command line for a flag: the token after its first
\* occurrence; undefined when the flag is absent, last, or given an empty
\* value.
Given(flag) ==
  IF \E i \in 1..(Len(argv) - 1) : argv[i] = flag
    THEN LET i == CHOOSE k \in 1..(Len(argv) - 1) :
                    argv[k] = flag /\ \A j \in 1..(k - 1) : argv[j] # flag
         IN IF (\A j \in 1..(i - 1) : argv[j] # flag) /\ argv[i + 1] # <<>>
              THEN argv[i + 1] ELSE undefined
    ELSE undefined

\* The comma-separated, trimmed, non-empty entries of KEYWORDS.
KeywordEntries ==
  LET raw == IF env.KEYWORDS = undefined THEN <<>> ELSE env.KEYWORDS
      pieces == MapTrim(SplitComma(raw, <<>>))
  IN FilterBoolean(pieces)

\* The target list the claim prescribes.
ClaimedTargets ==
  IF Given(FlagUrl) # undefined THEN <<Given(FlagUrl)>>
  ELSE IF Given(FlagKeyword) # undefined THEN <<Given(FlagKeyword)>>
  ELSE KeywordEntries

\* C3: after the CLI entry has parsed its input, the target list is the
\* --url value, else the --keyword value, else the KEYWORDS entries in
\* order; with no target, usage is printed and the process exits with
\* status 1 and no browser was launched.
C3_TargetPrecedence ==
  pc \notin {"load", "cli"} =>
    IF ClaimedTargets = <<>>
      THEN /\ pc = "exited"
           /\ exitCode = 1
           /\ <<"Usage">> \in errors
           /\ launched = 0
           /\ calls = <<>>
      ELSE /\ targets = ClaimedTargets
           /\ pc # "exited"
           /\ exitCode = 0
           /\ IsPrefix(calls, ClaimedTargets)

\* C3 witness: both --url and --keyword were given and KEYWORDS has entries;
\* the url alone was captured.
C3_Witness ==
  /\ Given(FlagUrl) # undefined
  /\ Given(FlagKeyword) # undefined
  /\ KeywordEntries # <<>>
  /\ pc = "done"
  /\ calls = <<Given(FlagUrl)>>

\* C3 second case: nothing is given and the process has exited.
C3_UsageReached == pc = "exited" /\ argv # <<>> /\ env.KEYWORDS # undefined

\* C9 (as stated): at most one browser instance is open at any time, on
\* every path, including those where navigation or a capture throws.
C9_Original == Cardinality(browsers) <= 1

\* C8 (as stated): a 04_isolated image is uploaded only when M4-1, M4-2 or
\* M4-3 of the same capture failed.
C8_Original ==
  \A p \in saved :
    p.tag = "04_isolated" =>
      \E m \in {"M4-1", "M4-2", "M4-3"} : <<m, p.kw, p.ts>> \in errors

\* The pairs main is to process: for every KEYWORDS entry in order, the pc
\* viewport and then the mobile viewport.
ClaimedPairs ==
  IF KeywordEntries = <<>> THEN <<>>
  ELSE [i \in 1..(2 * Len(KeywordEntries)) |->
          <<KeywordEntries[(i + 1) \div 2],
            IF i % 2 = 1 THEN "pc" ELSE "mobile">>]

\* how many pairs main has entered, from the position of its two loops
PairsEntered == 2 * (ti - 1) + vi

\* C11: in capture.js main(), whatever captureKeyword throws for a pair is
\* caught and logged: main never rejects, captureKeyword is invoked once per
\* pair in keyword-major order with pc before mobile, the loop is always
\* able to go on, and when main has returned every pair was invoked.
C11_EveryPairOnceInOrder ==
  /\ IsPrefix(calls, ClaimedPairs)
  /\ (pc = "rejected" => ~firebase /\ calls = <<>>)
  /\ (pc = "c_keyword" => Len(calls) = PairsEntered - 1)
  /\ (pc \in {"c_section", "c_close"} => Len(calls) = PairsEntered)
  /\ (pc \in {"c_keyword", "c_section", "c_close"} => ENABLED NextCapture)
  /\ (pc = "done" => calls = ClaimedPairs)
  /\ \A e \in errors :
       (e[1] = "main") => \E i \in DOMAIN calls : calls[i] = <<e[2], e[3]>>

\* C11 witness: main returned after captureKeyword threw for the first pair
\* and again for a later one, and all four pairs of two keywords were invoked.
C11_Witness ==
  /\ pc = "done"
  /\ Len(calls) = 4
  /\ calls = ClaimedPairs
  /\ <<"main", calls[1][1], "pc">> \in errors
  /\ <<"main", calls[4][1], "mobile">> \in errors
  /\ faultsLeft = 0

\* KEYWORDS is unset, empty, or holds only commas and white space.
KeywordsBlank ==
  \/ env.KEYWORDS = undefined
  \/ \A i \in DOMAIN env.KEYWORDS : env.KEYWORDS[i] \in {",", " "}

\* C12: in capture.js main(), when KEYWORDS is unset, empty, or only commas
\* and white space, main logs the error message and returns: captureKeyword
\* is never invoked, no browser is launched, no image is uploaded and no
\* metadata document is written.
C12_BlankKeywordsReturnEarly ==
  KeywordsBlank =>
    /\ pc \in {"c_load", "c_main", "done", "rejected"}
    /\ (pc = "rejected" => ~firebase)
    /\ (pc = "done" => <<"KEYWORDS empty">> \in errors)
    /\ (<<"KEYWORDS empty">> \in errors => pc = "done")
    /\ calls = <<>>
    /\ launched = 0
    /\ browsers = {}
    /\ NoCloudCall
    /\ localFiles = {}

\* C12 witness: main returned with the error message for a KEYWORDS value
\* made of commas and white space.
C12_Witness ==
  /\ KeywordsBlank
  /\ env.KEYWORDS # undefined
  /\ Len(env.KEYWORDS) = 3
  /\ \E i \in DOMAIN env.KEYWORDS : env.KEYWORDS[i] = ","
  /\ \E i \in DOMAIN env.KEYWORDS : env.KEYWORDS[i] = " "
  /\ pc = "done"
  /\ <<"KEYWORDS empty">> \in errors
  /\ launched = 0

====
